---- MODULE Spec2Model ----
(***************************************************************************)
(* Range-sum queries over a mutable array with an LRU cache keyed by       *)
(* ranges (task_1.py).  The cache is an OrderedDict: a sequence of         *)
(* key/value entries, least recently used first.                           *)
(* The sliding-window rate limiter (task_2.py) is a second, independent    *)
(* object: its deques hold timestamps, oldest first.                       *)
(***************************************************************************)
EXTENDS Integers, Sequences, FiniteSets, TLC

VARIABLES
    pc,      \* "new" before LRUCache(...) has returned a cache, "run" after
    array,   \* the array the cached engine reads and writes
    ref,     \* the copy of the array the engine without cache works on
    cache,   \* the LRUCache object: capacity, _od, hits, misses
    nops,    \* operations issued since construction
    stamp,   \* for each resident key, when it was last put or hit (0: never)
    last,    \* the last call: its arguments, outcome and return value
    lookups, \* calls of get made, directly or by range_sum_with_cache
    step,    \* how many calls of Script the calls so far are, -1 once they differ
    limiter, \* the SlidingWindowRateLimiter: window_size, max_requests, history
    now,     \* what time.time() returns
    lcall,   \* the last call of the limiter and what it returned
    accepted \* for each user, the times record_message returned True at

cvars == <<pc, array, ref, cache, nops, stamp, last, lookups, step>>

lvars == <<limiter, now, lcall, accepted>>

vars == <<pc, array, ref, cache, nops, stamp, last, lookups, step,
          limiter, now, lcall, accepted>>

\* ------------------------------------------------------------------ bounds
\* N: length of the array.  MaxCap: largest capacity a cache is built with.
\* MaxOps: operations issued when every operation and argument is allowed.
\* MaxRun: operations issued when the cache alone, or the engine with valid
\* arguments alone, is driven.
N == 2
MaxCap == 2
MaxOps == 3
MaxRun == 4
Values == {-1, 1}     \* the integers stored in the array and written by updates

\* MaxTime: last instant of the clock.  MaxWindow, MaxRequests: largest
\* window_size and max_requests a limiter is built with.  MaxAccepted: the
\* most messages a user gets accepted in a run.
MaxTime == 2
MaxWindow == 2
MaxRequests == 2
MaxAccepted == 3
Users == {"1", "2"}

\* the value get returns for a key that is not resident
MISS == -1

\* ------------------------------------------------------------ Python lists
RECURSIVE sum(_)
sum(s) == IF s = <<>> THEN 0 ELSE Head(s) + sum(Tail(s))

\* a slice bound as list slicing normalises it: negative bounds count from
\* the end, and everything is clamped into 0..n
SliceBound(i, n) ==
    IF i < 0 THEN (IF i + n < 0 THEN 0 ELSE i + n)
    ELSE (IF i > n THEN n ELSE i)

\* a slip: the bounds taken as 1-based positions, arr[start-1:stop-1]
SliceOneBased(arr, start, stop) ==
    SubSeq(arr, SliceBound(start - 1, Len(arr)) + 1,
                SliceBound(stop - 1, Len(arr)))

\* arr[start:stop]
Slice(arr, start, stop) ==
    SubSeq(arr, SliceBound(start, Len(arr)) + 1, SliceBound(stop, Len(arr)))

\* arr[index] = value is accepted for -len <= index < len, else IndexError
IndexAccepted(arr, index) == -Len(arr) <= index /\ index < Len(arr)

\* a slip: the element after the index is written
SetItemListOffByOne(arr, index, value) ==
    [arr EXCEPT ![((index + 1) % Len(arr)) + 1] = value]

SetItemList(arr, index, value) ==
    [arr EXCEPT ![(IF index < 0 THEN index + Len(arr) ELSE index) + 1] = value]

\* ------------------------------------------------------------ OrderedDict
Entry(key, value) == [key |-> key, value |-> value]

Contains(od, key) == \E i \in 1..Len(od) : od[i].key = key

IndexOf(od, key) == CHOOSE i \in 1..Len(od) : od[i].key = key

GetItem(od, key) == od[IndexOf(od, key)].value

DelItem(od, key) == SelectSeq(od, LAMBDA e : e.key # key)

move_to_end(od, key) == Append(DelItem(od, key), od[IndexOf(od, key)])

\* a slip: od[key] = value that adds an entry even when the key is present
SetItemAppend(od, key, value) == Append(od, Entry(key, value))

\* od[key] = value: an existing key keeps its position, a new key goes last
SetItem(od, key, value) ==
    IF Contains(od, key)
    THEN [i \in 1..Len(od) |-> IF od[i].key = key THEN Entry(key, value) ELSE od[i]]
    ELSE Append(od, Entry(key, value))

\* a slip: popitem() with its default last=True removes the newest entry
popitem_last(od) == SubSeq(od, 1, Len(od) - 1)

\* od.popitem(last=False)
popitem(od) == Tail(od)

keys(od) == [i \in 1..Len(od) |-> od[i].key]

\* ---------------------------------------------------------------- LRUCache
\* a slip: capacity < 0 for capacity <= 0
CapacityRejectedNegative(capacity) == capacity < 0

\* the check of __init__: which capacities raise ValueError
CapacityRejected(capacity) == capacity <= 0

LRUCache(capacity) ==
    [capacity |-> capacity, od |-> <<>>, hits |-> 0, misses |-> 0]

\* a slip: a hit that returns the value without move_to_end
get_no_refresh(c, key) ==
    IF Contains(c.od, key)
    THEN [cache |-> [c EXCEPT !.hits = @ + 1], ret |-> GetItem(c.od, key)]
    ELSE [cache |-> [c EXCEPT !.misses = @ + 1], ret |-> MISS]

\* a slip: misses counted on every call, outside the else branch
get_miss_always(c, key) ==
    IF Contains(c.od, key)
    THEN [cache |-> [c EXCEPT !.od = move_to_end(c.od, key), !.hits = @ + 1,
                              !.misses = @ + 1],
          ret   |-> GetItem(c.od, key)]
    ELSE [cache |-> [c EXCEPT !.misses = @ + 1],
          ret   |-> MISS]

get(c, key) ==
    IF Contains(c.od, key)
    THEN [cache |-> [c EXCEPT !.od = move_to_end(c.od, key), !.hits = @ + 1],
          ret   |-> GetItem(c.od, key)]
    ELSE [cache |-> [c EXCEPT !.misses = @ + 1],
          ret   |-> MISS]

\* a slip: a put that never evicts
put_no_evict(c, key, value) ==
    LET od1 == IF Contains(c.od, key) THEN move_to_end(c.od, key) ELSE c.od
    IN  [c EXCEPT !.od = SetItem(od1, key, value)]

put(c, key, value) ==
    LET od1 == IF Contains(c.od, key) THEN move_to_end(c.od, key) ELSE c.od
        od2 == SetItem(od1, key, value)
        od3 == IF Len(od2) > c.capacity THEN popitem(od2) ELSE od2
    IN  [c EXCEPT !.od = od3]

\* ------------------------------------------------------------------ engine
range_sum_no_cache(arr, left, right) == sum(Slice(arr, left, right + 1))

update_no_cache(arr, index, value) ==
    IF IndexAccepted(arr, index) THEN SetItemList(arr, index, value) ELSE arr

range_sum_with_cache(arr, left, right, c) ==
    LET key == <<left, right>>
        g   == get(c, key)
    IN  IF g.ret # MISS
        THEN [cache |-> g.cache, ret |-> g.ret, put |-> FALSE, summed |-> FALSE]
        ELSE LET total == sum(Slice(arr, left, right + 1))
             IN  [cache |-> put(g.cache, key, total), ret |-> total,
                  put |-> TRUE, summed |-> TRUE]

\* slips in the bounds of the overlap test
OverlapsExclusiveLeft(l, r, index) == l < index /\ index <= r

OverlapsExclusiveRight(l, r, index) == l <= index /\ index < r

\* the test of the invalidation scan: l <= index <= r
Overlaps(l, r, index) == l <= index /\ index <= r

\* the keys the scan collects, in dictionary order
to_delete(c, index) ==
    SelectSeq(keys(c.od), LAMBDA k : Overlaps(k[1], k[2], index))

\* a slip: the deletion loop stops after its first deletion
InvalidateFirstOnly(c, index) ==
    [c EXCEPT !.od = SelectSeq(c.od, LAMBDA e :
        ~ (to_delete(c, index) # <<>> /\ to_delete(c, index)[1] = e.key))]

\* a slip: every update empties the cache
InvalidateAll(c, index) == [c EXCEPT !.od = <<>>]

\* a slip: only the last collected key is deleted
InvalidateLastOnly(c, index) ==
    [c EXCEPT !.od = SelectSeq(c.od, LAMBDA e :
        ~ (to_delete(c, index) # <<>>
           /\ to_delete(c, index)[Len(to_delete(c, index))] = e.key))]

\* the deletion loop: every collected key still resident is deleted
Invalidate(c, index) ==
    [c EXCEPT !.od = SelectSeq(c.od, LAMBDA e :
        ~ \E i \in 1..Len(to_delete(c, index)) : to_delete(c, index)[i] = e.key)]

update_with_cache(arr, index, value, c) ==
    IF IndexAccepted(arr, index)
    THEN [array |-> SetItemList(arr, index, value),
          cache |-> Invalidate(c, index), outcome |-> "ok"]
    ELSE [array |-> arr, cache |-> c, outcome |-> "IndexError"]

\* ------------------------------------------------------------------ inputs
Indices == 0..(N - 1)

ValidKeys == {k \in Indices \X Indices : k[1] <= k[2]}

\* ranges the engine is called with: the valid ones, and one of each kind
\* the callers must not pass (left > right, negative left, right >= N)
RangeArgs == ValidKeys \cup {<<N - 1, N - 2>>, <<-1, 0>>, <<0, N>>}

\* indices update is called with: the valid ones, one negative index a list
\* accepts, and one beyond each end
UpdateArgs == Indices \cup {-1, N, -N - 1}

\* keys get and put are called with directly: one more than the largest cache
\* holds
CacheKeys == {<<0, r>> : r \in 0..MaxCap}

\* the calls of the worked example: ("Range", left, right) and
\* ("Update", index, value) on the array 1, 2, ..., 10
Script ==
    << <<"Range", 2, 5>>, <<"Range", 2, 5>>, <<"Range", 0, 1>>,
       <<"Range", 6, 9>>, <<"Update", 3, 100>>, <<"Range", 2, 5>> >>

ScriptArray == [i \in 1..10 |-> i]

ScriptRanges == {<<Script[i][2], Script[i][3]>> :
                    i \in {j \in 1..Len(Script) : Script[j][1] = "Range"}}

ScriptUpdates == {<<Script[i][2], Script[i][3]>> :
                    i \in {j \in 1..Len(Script) : Script[j][1] = "Update"}}

\* the position in Script after the call q
Advance(st, q) ==
    IF st >= 0 /\ st < Len(Script) /\ Script[st + 1] = q THEN st + 1 ELSE -1

AllKeys == RangeArgs \cup CacheKeys \cup ScriptRanges

Capacities == -1..MaxCap

NoKey == <<0, 0>>

\* what pc = "new" leaves in the variable cache: there is no cache yet
NoCache == [capacity |-> 0, od |-> <<>>, hits |-> 0, misses |-> 0]

\* the keys an operation removed from the dictionary
Removed(od, od2) == SelectSeq(keys(od), LAMBDA k : ~ Contains(od2, k))

\* a time later than every access recorded in st
Later(st) == 1 + (CHOOSE t \in 0..(MaxOps + MaxRun + Len(Script)) :
                    /\ \A k \in AllKeys : st[k] <= t
                    /\ \E k \in AllKeys : st[k] = t)

\* the access times after an operation that put or hit the keys `touched`:
\* a key accessed now is later than every resident key, a key that is no
\* longer resident has no access time
Restamp(st, od2, touched) ==
    [k \in AllKeys |->
        IF ~ Contains(od2, k) THEN 0
        ELSE IF k \in touched THEN Later(st) ELSE st[k]]

Call(op, key, idx, val, outcome, ret, looked, didput, summed, removed) ==
    [op |-> op, key |-> key, idx |-> idx, val |-> val, outcome |-> outcome,
     ret |-> ret, looked |-> looked, put |-> didput, summed |-> summed,
     removed |-> removed]

\* ------------------------------------------------ SlidingWindowRateLimiter
\* history.get(user): None, or the deque of the user
Absent == [present |-> FALSE, dq |-> <<>>]

Present(dq) == [present |-> TRUE, dq |-> dq]

SlidingWindowRateLimiter(window_size, max_requests) ==
    [window_size |-> window_size, max_requests |-> max_requests,
     history |-> [u \in Users |-> Absent]]

\* a slip: < for <= in the cleanup loop
ExpiredStrict(t, boundary) == t < boundary

\* the test of the cleanup loop: dq[0] <= boundary
Expired(t, boundary) == t <= boundary

\* while dq and dq[0] <= boundary: dq.popleft()
RECURSIVE PopOld(_, _)
PopOld(dq, boundary) ==
    IF dq # <<>> /\ Expired(Head(dq), boundary)
    THEN PopOld(Tail(dq), boundary)
    ELSE dq

\* _cleanup_window: nothing for a missing or empty deque; a deque emptied by
\* the loop is deleted from history
cleanup_window(lim, user, current_time) ==
    LET h == lim.history[user]
    IN  IF ~ h.present \/ h.dq = <<>>
        THEN lim
        ELSE LET dq == PopOld(h.dq, current_time - lim.window_size)
             IN  [lim EXCEPT !.history[user] =
                                IF dq = <<>> THEN Absent ELSE Present(dq)]

can_send_message(lim, user, t) ==
    LET l1 == cleanup_window(lim, user, t)
        h  == l1.history[user]
    IN  [limiter |-> l1,
         ret |-> IF ~ h.present THEN TRUE ELSE Len(h.dq) < l1.max_requests]

\* a slip: <= for < in record_message
HasRoomInclusive(len, max_requests) == len <= max_requests

\* the test of record_message: len(dq) < self.max_requests
HasRoom(len, max_requests) == len < max_requests

\* a missing deque is created and stored before the test
record_message(lim, user, t) ==
    LET l1 == cleanup_window(lim, user, t)
        h  == l1.history[user]
        dq == IF h.present THEN h.dq ELSE <<>>
    IN  IF HasRoom(Len(dq), l1.max_requests)
        THEN [limiter |-> [l1 EXCEPT !.history[user] = Present(Append(dq, t))],
              ret |-> TRUE]
        ELSE [limiter |-> [l1 EXCEPT !.history[user] = Present(dq)],
              ret |-> FALSE]

\* dq[0] of an empty deque raises IndexError
time_until_next_allowed(lim, user, t) ==
    LET l1 == cleanup_window(lim, user, t)
        h  == l1.history[user]
    IN  IF ~ h.present \/ Len(h.dq) < l1.max_requests
        THEN [limiter |-> l1, ret |-> 0, outcome |-> "ok"]
        ELSE IF h.dq = <<>>
        THEN [limiter |-> l1, ret |-> 0, outcome |-> "IndexError"]
        ELSE LET wait == l1.window_size - (t - h.dq[1])
             IN  [limiter |-> l1, ret |-> IF wait > 0 THEN wait ELSE 0,
                  outcome |-> "ok"]

Windows == 0..MaxWindow

Requests == 0..MaxRequests

LCall(op, user, at, ok, wait, outcome) ==
    [op |-> op, user |-> user, at |-> at, ok |-> ok, wait |-> wait,
     outcome |-> outcome]

\* the limiter of test_rate_limiter, never called
IdleLimiter ==
    /\ limiter = SlidingWindowRateLimiter(10, 1)
    /\ now = 0
    /\ lcall = LCall("none", "1", 0, FALSE, 0, "ok")
    /\ accepted = [u \in Users |-> <<>>]

\* ---------------------------------------------------------------- actions
Init ==
    /\ pc = "new"
    /\ array \in [1..N -> Values]
    /\ ref = array
    /\ cache = NoCache
    /\ nops = 0
    /\ stamp = [k \in AllKeys |-> 0]
    /\ last = Call("none", NoKey, 0, 0, "ok", 0, "none", FALSE, FALSE, <<>>)
    /\ lookups = 0
    /\ step = 0
    /\ IdleLimiter

\* cache = LRUCache(capacity=k_capacity)
Construct(capacity) ==
    /\ pc = "new"
    /\ IF CapacityRejected(capacity)
       THEN /\ last' = Call("construct", NoKey, capacity, 0, "ValueError", 0,
                            "none", FALSE, FALSE, <<>>)
            /\ UNCHANGED <<pc, cache>>
       ELSE /\ cache' = LRUCache(capacity)
            /\ pc' = "run"
            /\ last' = Call("construct", NoKey, capacity, 0, "ok", 0,
                            "none", FALSE, FALSE, <<>>)
    /\ UNCHANGED <<array, ref, nops, stamp, lookups, step>>
    /\ UNCHANGED lvars

Get(key) ==
    /\ pc = "run"
    /\ LET g == get(cache, key)
       IN  /\ cache' = g.cache
           /\ stamp' = Restamp(stamp, g.cache.od, {key})
           /\ last' = Call("get", key, 0, 0, "ok", g.ret,
                           IF g.cache.hits > cache.hits THEN "hit" ELSE "miss",
                           FALSE, FALSE, Removed(cache.od, g.cache.od))
    /\ nops' = nops + 1
    /\ lookups' = lookups + 1
    /\ step' = -1
    /\ UNCHANGED <<pc, array, ref>>
    /\ UNCHANGED lvars

Put(key, value) ==
    /\ pc = "run"
    /\ LET c == put(cache, key, value)
       IN  /\ cache' = c
           /\ stamp' = Restamp(stamp, c.od, {key})
           /\ last' = Call("put", key, 0, value, "ok", 0, "none", TRUE, FALSE,
                           Removed(cache.od, c.od))
    /\ nops' = nops + 1
    /\ step' = -1
    /\ UNCHANGED <<pc, array, ref, lookups>>
    /\ UNCHANGED lvars

RangeSum(left, right) ==
    /\ pc = "run"
    /\ LET r == range_sum_with_cache(array, left, right, cache)
       IN  /\ cache' = r.cache
           /\ stamp' = Restamp(stamp, r.cache.od, {<<left, right>>})
           /\ last' = Call("range_sum", <<left, right>>, 0, 0, "ok", r.ret,
                           IF r.cache.hits > cache.hits THEN "hit" ELSE "miss",
                           r.put, r.summed, Removed(cache.od, r.cache.od))
    /\ nops' = nops + 1
    /\ lookups' = lookups + 1
    /\ step' = Advance(step, <<"Range", left, right>>)
    /\ UNCHANGED <<pc, array, ref>>
    /\ UNCHANGED lvars

Update(index, value) ==
    /\ pc = "run"
    /\ LET u == update_with_cache(array, index, value, cache)
       IN  /\ array' = u.array
           /\ cache' = u.cache
           /\ stamp' = Restamp(stamp, u.cache.od, {})
           /\ last' = Call("update", NoKey, index, value, u.outcome, 0,
                           "none", FALSE, FALSE, Removed(cache.od, u.cache.od))
    /\ ref' = update_no_cache(ref, index, value)
    /\ nops' = nops + 1
    /\ step' = Advance(step, <<"Update", index, value>>)
    /\ UNCHANGED <<pc, lookups>>
    /\ UNCHANGED lvars

\* every operation, with every kind of argument
DoConstruct == \E capacity \in Capacities : Construct(capacity)
DoGet == nops < MaxOps /\ \E key \in CacheKeys : Get(key)
DoPut == nops < MaxOps /\ \E key \in CacheKeys, value \in Values : Put(key, value)
DoRangeSum == nops < MaxOps /\ \E key \in RangeArgs : RangeSum(key[1], key[2])
DoUpdate ==
    nops < MaxOps /\ \E index \in UpdateArgs, value \in Values : Update(index, value)

Next == DoConstruct \/ DoGet \/ DoPut \/ DoRangeSum \/ DoUpdate

\* started on an array whose elements are all the same; updates make the rest
InitSame == Init /\ \E v \in Values : array = [i \in 1..N |-> v]

Spec == InitSame /\ [][Next]_vars

\* the cache alone
InitCache == Init /\ array = [i \in 1..N |-> 1]
CacheGet == nops < MaxRun /\ \E key \in CacheKeys : Get(key)
CachePut == nops < MaxRun /\ \E key \in CacheKeys, value \in Values : Put(key, value)

NextCache == DoConstruct \/ CacheGet \/ CachePut

SpecCache == InitCache /\ [][NextCache]_vars

\* the engine driven as run_with_cache drives it, with the arguments
\* make_queries generates: 0 <= left <= right < N, 0 <= index < N
ValidRangeSum == nops < MaxRun /\ \E key \in ValidKeys : RangeSum(key[1], key[2])
ValidUpdate ==
    nops < MaxRun /\ \E index \in Indices, value \in Values : Update(index, value)

NextValid == DoConstruct \/ ValidRangeSum \/ ValidUpdate

SpecValid == Init /\ [][NextValid]_vars

\* the worked example: the array 1..10, capacity 2, and the calls of Script
\* in any order
InitScript ==
    /\ pc = "new"
    /\ array = ScriptArray
    /\ ref = array
    /\ cache = NoCache
    /\ nops = 0
    /\ stamp = [k \in AllKeys |-> 0]
    /\ last = Call("none", NoKey, 0, 0, "ok", 0, "none", FALSE, FALSE, <<>>)
    /\ lookups = 0
    /\ step = 0
    /\ IdleLimiter

ScriptConstruct == Construct(2)
ScriptRangeSum ==
    nops < Len(Script) /\ \E key \in ScriptRanges : RangeSum(key[1], key[2])
ScriptUpdate ==
    nops < Len(Script) /\ \E u \in ScriptUpdates : Update(u[1], u[2])

NextScript == ScriptConstruct \/ ScriptRangeSum \/ ScriptUpdate

SpecScript == InitScript /\ [][NextScript]_vars

\* ----------------------------------------------------------------- limiter
CanSend(user) ==
    /\ LET r == can_send_message(limiter, user, now)
       IN  /\ limiter' = r.limiter
           /\ lcall' = LCall("can_send", user, now, r.ret, 0, "ok")
    /\ UNCHANGED <<now, accepted>>
    /\ UNCHANGED cvars

Record(user) ==
    /\ LET r == record_message(limiter, user, now)
       IN  /\ r.ret => Len(accepted[user]) < MaxAccepted
           /\ limiter' = r.limiter
           /\ lcall' = LCall("record", user, now, r.ret, 0, "ok")
           /\ accepted' = IF r.ret
                           THEN [accepted EXCEPT ![user] = Append(@, now)]
                           ELSE accepted
    /\ UNCHANGED now
    /\ UNCHANGED cvars

TimeUntil(user) ==
    /\ LET r == time_until_next_allowed(limiter, user, now)
       IN  /\ limiter' = r.limiter
           /\ lcall' = LCall("time_until", user, now, FALSE, r.ret, r.outcome)
    /\ UNCHANGED <<now, accepted>>
    /\ UNCHANGED cvars

\* time passes between two calls
Tick ==
    /\ now < MaxTime
    /\ now' = now + 1
    /\ UNCHANGED <<limiter, lcall, accepted>>
    /\ UNCHANGED cvars

\* a limiter of any configuration, just built
InitLimiter ==
    /\ pc = "new"
    /\ array = [i \in 1..N |-> 1]
    /\ ref = array
    /\ cache = NoCache
    /\ nops = 0
    /\ stamp = [k \in AllKeys |-> 0]
    /\ last = Call("none", NoKey, 0, 0, "ok", 0, "none", FALSE, FALSE, <<>>)
    /\ lookups = 0
    /\ step = 0
    /\ \E w \in Windows, m \in Requests :
            limiter = SlidingWindowRateLimiter(w, m)
    /\ now = 0
    /\ lcall = LCall("none", "1", 0, FALSE, 0, "ok")
    /\ accepted = [u \in Users |-> <<>>]

DoCanSend == \E user \in Users : CanSend(user)
DoRecord == \E user \in Users : Record(user)
DoTimeUntil == \E user \in Users : TimeUntil(user)

NextLimiter == DoCanSend \/ DoRecord \/ DoTimeUntil \/ Tick

SpecLimiter == InitLimiter /\ [][NextLimiter]_vars

\* ------------------------------------------------------------------ claims
\* 0 <= left <= right < n
ValidRange(key, n) == 0 <= key[1] /\ key[1] <= key[2] /\ key[2] < n

\* the number of update calls so far, when only range_sum and update are called
Updates == nops - cache.hits - cache.misses

\* C1: with valid arguments, every result of range_sum_with_cache equals what
\* range_sum_no_cache returns on the array that received the same updates.
C1_FreshResult ==
    last.op = "range_sum" =>
        last.ret = range_sum_no_cache(ref, last.key[1], last.key[2])

\* a query answered from the cache after an update
C1_HitAfterUpdate ==
    /\ last.op = "range_sum"
    /\ last.looked = "hit"
    /\ ~ last.summed
    /\ Updates >= 1

\* C2: after every completed range_sum or update with valid arguments, every
\* resident entry (l, r) holds the sum of the current array over l..r.
C2_FreshEntries ==
    pc = "run" =>
        \A i \in 1..Len(cache.od) :
            cache.od[i].value =
                range_sum_no_cache(array, cache.od[i].key[1], cache.od[i].key[2])

\* an update that removed one entry and left another
C2_UpdateWithSurvivor ==
    /\ last.op = "update"
    /\ Len(last.removed) = 1
    /\ Len(cache.od) = 1

\* C3: after any sequence of get, put, range_sum and update on a cache of
\* capacity C >= 1, at most C entries are resident.
C3_CapacityBound ==
    pc = "run" => cache.capacity >= 1 /\ Len(cache.od) <= cache.capacity

\* a put into a full cache, which evicted
C3_FullAfterEviction ==
    /\ last.put
    /\ last.removed # <<>>
    /\ Len(cache.od) = cache.capacity

\* C4: a put of a key that is not resident into a full cache removes exactly
\* the least recently used entry (the one whose last put or hit is oldest) and
\* keeps the new key; any other put removes nothing.
C4_EvictsLRU ==
    [][(pc = "run" /\ last'.op = "put") =>
        LET k  == last'.key
            od == cache.od
        IN  IF ~ Contains(od, k) /\ Len(od) = cache.capacity
            THEN /\ last'.removed = <<od[1].key>>
                 /\ \A i \in 2..Len(od) : stamp[od[1].key] < stamp[od[i].key]
                 /\ Contains(cache'.od, k)
                 /\ Len(cache'.od) = cache.capacity
            ELSE /\ last'.removed = <<>>
                 /\ Contains(cache'.od, k)]_vars

\* capacity 2, three puts of distinct keys and no get: the first key is gone
C4_FirstInsertedEvicted ==
    /\ cache.capacity = 2
    /\ nops = 3
    /\ cache.hits = 0 /\ cache.misses = 0
    /\ last.op = "put"
    /\ last.removed = << <<0, 0>> >>
    /\ keys(cache.od) = << <<0, 1>>, <<0, 2>> >>

\* C5: after a get that hits k, or a put of k, k is the most recently used
\* entry and the other resident entries keep their relative order; a get that
\* misses leaves the order unchanged; the order is the order of last accesses,
\* so an evicted key is older than every key that stays.
C5_RecencyOrder ==
    [][(pc = "run" /\ last'.op \in {"get", "put"}) =>
        LET k      == last'.key
            before == keys(cache.od)
            after  == keys(cache'.od)
            gone   == {last'.removed[i] : i \in 1..Len(last'.removed)}
        IN  /\ IF last'.op = "get" /\ last'.looked = "miss"
               THEN cache'.od = cache.od
               ELSE /\ after # <<>>
                    /\ after[Len(after)] = k
                    /\ SelectSeq(after, LAMBDA x : x # k) =
                         SelectSeq(before, LAMBDA x : x # k /\ x \notin gone)
            /\ \A i, j \in 1..Len(after) :
                    i < j => stamp'[after[i]] < stamp'[after[j]]
            /\ \A e \in gone : \A j \in 1..Len(before) :
                    before[j] # e => stamp[e] < stamp[before[j]]]_vars

\* capacity 2: <<0, 0>> was refreshed by a get, so the put of a third key
\* evicted <<0, 1>>
C5_RefreshDefersEviction ==
    /\ cache.capacity = 2
    /\ nops = 4
    /\ cache.hits = 1 /\ cache.misses = 0
    /\ last.op = "put"
    /\ last.removed = << <<0, 1>> >>
    /\ keys(cache.od) = << <<0, 0>>, <<0, 2>> >>

\* C6: right after an update(i, v) that was accepted, no resident key (l, r)
\* has l <= i <= r.
C6_InvalidationExhaustive ==
    (last.op = "update" /\ last.outcome = "ok") =>
        \A j \in 1..Len(cache.od) :
            ~ (cache.od[j].key[1] <= last.idx /\ last.idx <= cache.od[j].key[2])

\* an update that removed two entries at once
C6_TwoRemoved ==
    /\ last.op = "update"
    /\ last.outcome = "ok"
    /\ Len(last.removed) >= 2

\* C7: update(i, v) leaves the entries whose key does not contain i resident,
\* with their values and their relative order; when no resident key contains
\* i, the cache is unchanged.
C7_SurvivorsUntouched ==
    [][(pc = "run" /\ last'.op = "update") =>
        LET i == last'.idx
        IN  /\ SelectSeq(cache'.od, LAMBDA e : i < e.key[1] \/ i > e.key[2]) =
                SelectSeq(cache.od, LAMBDA e : i < e.key[1] \/ i > e.key[2])
            /\ (\A j \in 1..Len(cache.od) :
                    i < cache.od[j].key[1] \/ i > cache.od[j].key[2])
                => cache' = cache]_vars

\* an update of a valid index that removed an entry and left one behind
C7_RemovedAndKept ==
    /\ last.op = "update"
    /\ last.idx \in Indices
    /\ last.removed # <<>>
    /\ cache.od # <<>>

\* C8: a range query with left > right, or an index outside 0..N-1, is rejected
\* with an error and leaves the array and the cache as they were.
C8_BadRangeRejected ==
    [][(pc = "run" /\ last'.op = "range_sum"
            /\ ~ ValidRange(last'.key, Len(array))) =>
        /\ last'.outcome # "ok"
        /\ array' = array
        /\ cache' = cache]_vars

\* C9: update with an index outside 0..N-1 fails with an error and leaves the
\* array and the cache as they were.
C9_BadIndexRejected ==
    [][(pc = "run" /\ last'.op = "update"
            /\ (last'.idx < 0 \/ last'.idx >= Len(array))) =>
        /\ last'.outcome # "ok"
        /\ array' = array
        /\ cache' = cache]_vars

\* C10: constructing with capacity <= 0 fails and yields no cache; with
\* capacity >= 1 it yields an empty cache with hits = 0 and misses = 0.
C10_Construction ==
    last.op = "construct" =>
        IF last.idx <= 0
        THEN last.outcome = "ValueError" /\ pc = "new" /\ cache = NoCache
        ELSE /\ last.outcome = "ok"
             /\ pc = "run"
             /\ cache = [capacity |-> last.idx, od |-> <<>>,
                         hits |-> 0, misses |-> 0]

\* the constructor refused capacity 0
C10_ZeroRefused ==
    /\ last.op = "construct"
    /\ last.idx = 0
    /\ last.outcome = "ValueError"

\* C11: update(i, v) performed twice in a row leaves the array and the cache
\* (entries, values, order, counters) as performing it once does.
C11_UpdateIdempotent ==
    pc = "run" =>
        \A i \in UpdateArgs, v \in Values :
            LET once  == update_with_cache(array, i, v, cache)
                twice == update_with_cache(once.array, i, v, once.cache)
            IN  /\ twice.array = once.array
                /\ twice.cache = once.cache
                /\ twice.outcome = once.outcome

\* an update has just removed an entry and kept another one; the same update
\* again removes nothing
C11_SecondUpdateNoOp ==
    /\ last.op = "update"
    /\ last.removed # <<>>
    /\ cache.od # <<>>
    /\ update_with_cache(array, last.idx, last.val, cache).cache = cache
    /\ update_with_cache(array, last.idx, last.val, cache).array = array

\* C12: a put on a resident key keeps the number of entries, leaves one entry
\* for the key, holding the new value, in the most recent position, evicts
\* nothing and leaves the other entries as they were.
C12_PutResident ==
    [][(/\ nops' = nops + 1
        /\ last'.op = "put"
        /\ Contains(cache.od, last'.key))
       => /\ Len(cache'.od) = Len(cache.od)
          /\ Cardinality({i \in 1..Len(cache'.od) :
                              cache'.od[i].key = last'.key}) = 1
          /\ cache'.od[Len(cache'.od)] = Entry(last'.key, last'.val)
          /\ last'.removed = <<>>
          /\ DelItem(cache'.od, last'.key) = DelItem(cache.od, last'.key)]_vars

\* put (0, 1), put (0, 0), put (0, 0): the third put found its key resident
\* in a full cache
C12_ResidentPutInFullCache ==
    /\ last.op = "put"
    /\ last.key = <<0, 0>>
    /\ cache.capacity = 2
    /\ nops = 3
    /\ keys(cache.od) = << <<0, 1>>, <<0, 0>> >>
    /\ stamp[<<0, 1>>] = 1
    /\ stamp[<<0, 0>>] = 3
    /\ cache.hits = 0
    /\ cache.misses = 0

\* C13: hits and misses never decrease; a range_sum call raises hits by one
\* when its key was resident and misses by one otherwise, never both; an
\* update changes neither; hits + misses is the number of range_sum calls.
C13_Counters ==
    [][pc = "run" =>
        /\ cache'.hits >= cache.hits
        /\ cache'.misses >= cache.misses
        /\ (nops' = nops + 1 /\ last'.op = "range_sum") =>
               IF Contains(cache.od, last'.key)
               THEN cache'.hits = cache.hits + 1 /\ cache'.misses = cache.misses
               ELSE cache'.misses = cache.misses + 1 /\ cache'.hits = cache.hits
        /\ (nops' = nops + 1 /\ last'.op = "update") =>
               cache'.hits = cache.hits /\ cache'.misses = cache.misses
        /\ cache'.hits + cache'.misses = lookups']_vars

\* hits, misses and updates have all been counted
C13_AllCounted ==
    /\ cache.hits = 1
    /\ cache.misses = 2
    /\ lookups = 3
    /\ last.op = "update"

\* C14 as stated: on the array 1..10 with capacity 2, the calls of Script
\* return 14, 14, 3, 34 and, after update(3, 100), 108.
C14_StatedResults ==
    /\ step = 1 => last.ret = 14
    /\ step = 2 => last.ret = 14
    /\ step = 3 => last.ret = 3
    /\ step = 4 => last.ret = 34
    /\ step = 6 => last.ret = 108

\* C14, amended: on the array 1..10 with capacity 2, the calls of Script
\* return 18, 18, 3, 34 and, after update(3, 100), 114.
C14_ScriptResults ==
    /\ step = 1 => last.ret = 18
    /\ step = 2 => last.ret = 18
    /\ step = 3 => last.ret = 3
    /\ step = 4 => last.ret = 34
    /\ step = 5 => last.op = "update" /\ array[4] = 100
    /\ step = 6 => last.ret = 114

\* the six calls of Script have been made, the last one after the update
C14_ScriptDone ==
    /\ step = 6
    /\ last.key = <<2, 5>>
    /\ array[4] = 100
    /\ last.ret = array[3] + array[4] + array[5] + array[6]

\* C15 as stated: call 1 misses, call 2 hits (hits = 1), call 3 misses and
\* fills the cache, call 4 evicts (0, 1) and leaves (2, 5) and (6, 9), the
\* update removes (2, 5) and keeps (6, 9), call 6 misses.
C15_StatedEvolution ==
    /\ step = 1 => last.looked = "miss"
    /\ step = 2 => last.looked = "hit" /\ cache.hits = 1
    /\ step = 3 => last.looked = "miss" /\ Len(cache.od) = 2
    /\ step = 4 => /\ last.removed = << <<0, 1>> >>
                   /\ {e.key : e \in {cache.od[i] : i \in 1..Len(cache.od)}}
                          = {<<2, 5>>, <<6, 9>>}
    /\ step = 5 => /\ last.removed = << <<2, 5>> >>
                   /\ keys(cache.od) = << <<6, 9>> >>
    /\ step = 6 => last.looked = "miss"

\* C15, amended: call 1 misses, call 2 hits (hits = 1), call 3 misses and
\* fills the cache, call 4 misses, evicts (2, 5) and leaves (0, 1) and (6, 9)
\* in this order, the update removes nothing, call 6 misses, evicts (0, 1)
\* and leaves (6, 9) and (2, 5); hits = 1 and misses = 4 at the end.
C15_ScriptEvolution ==
    /\ step = 1 => /\ last.looked = "miss"
                   /\ keys(cache.od) = << <<2, 5>> >>
    /\ step = 2 => /\ last.looked = "hit" /\ cache.hits = 1
                   /\ keys(cache.od) = << <<2, 5>> >>
    /\ step = 3 => /\ last.looked = "miss"
                   /\ keys(cache.od) = << <<2, 5>>, <<0, 1>> >>
    /\ step = 4 => /\ last.looked = "miss"
                   /\ last.removed = << <<2, 5>> >>
                   /\ keys(cache.od) = << <<0, 1>>, <<6, 9>> >>
    /\ step = 5 => /\ last.removed = <<>>
                   /\ keys(cache.od) = << <<0, 1>>, <<6, 9>> >>
    /\ step = 6 => /\ last.looked = "miss"
                   /\ last.removed = << <<0, 1>> >>
                   /\ keys(cache.od) = << <<6, 9>>, <<2, 5>> >>
                   /\ cache.hits = 1 /\ cache.misses = 4

\* after the six calls of Script the cache holds (6, 9) and the recomputed
\* sum of (2, 5)
C15_ScriptEnd ==
    /\ step = 6
    /\ cache.od = << Entry(<<6, 9>>, 34), Entry(<<2, 5>>, last.ret) >>
    /\ last.looked = "miss"

\* C16: a range_sum call counted as a hit returns the cached value without
\* summing the array and without calling put; the array is summed and put is
\* called exactly in the calls counted as a miss.
C16_HitSkipsSumAndPut ==
    last.op = "range_sum" =>
        /\ last.looked = "hit" => ~ last.summed /\ ~ last.put
        /\ last.looked = "miss" => last.summed /\ last.put

\* C17: range_sum, get and put leave the array as it is; update(index, value)
\* with 0 <= index < N sets array[index] to value and leaves the other
\* elements and the length as they are.
C17_StoreFrame ==
    [][nops' = nops + 1 =>
        /\ last'.op \in {"range_sum", "get", "put"} => array' = array
        /\ (last'.op = "update" /\ 0 <= last'.idx /\ last'.idx < Len(array)) =>
               /\ Len(array') = Len(array)
               /\ array'[last'.idx + 1] = last'.val
               /\ \A j \in 1..Len(array) :
                      j # last'.idx + 1 => array'[j] = array[j]]_vars

\* update(0, v) has changed the first element and not the second
C17_FirstElementWritten ==
    /\ last.op = "update"
    /\ last.idx = 0
    /\ last.outcome = "ok"
    /\ array[1] = last.val
    /\ array[2] # array[1]
    /\ array[2] = ref[2]

\* the accepted messages of user u with a timestamp in (t - window_size, t]
AcceptedIn(u, t) ==
    {i \in 1..Len(accepted[u]) :
        t - limiter.window_size < accepted[u][i] /\ accepted[u][i] <= t}

\* for every user and instant, at most max_requests accepted messages have
\* a timestamp in the window ending at that instant
WindowBound ==
    \A u \in Users, t \in 0..(MaxTime + MaxWindow) :
        Cardinality(AcceptedIn(u, t)) <= limiter.max_requests

\* after an operation for a user, the history of that user holds at most
\* max_requests timestamps, all newer than the time of the operation minus
\* window_size
HistoryFresh ==
    lcall.op # "none" =>
        LET dq == limiter.history[lcall.user].dq
        IN  /\ Len(dq) <= limiter.max_requests
            /\ \A i \in 1..Len(dq) : dq[i] > lcall.at - limiter.window_size

C19_CheckAgreesWithRecord ==
    \A u \in Users :
        can_send_message(limiter, u, now).ret
            = record_message(limiter, u, now).ret

\* C20: with window_size > 0 and max_requests >= 1, time_until_next_allowed
\* returns 0 exactly when record_message at the same time is accepted; when
\* it returns w > 0 and nothing more is recorded for the user,
\* record_message is rejected at every time before now + w and accepted at
\* now + w.
C20_WaitIsExact ==
    (limiter.window_size > 0 /\ limiter.max_requests >= 1) =>
        \A u \in Users :
            LET r == time_until_next_allowed(limiter, u, now)
            IN  /\ r.outcome = "ok"
                /\ r.ret >= 0
                /\ r.ret = 0 <=> record_message(limiter, u, now).ret
                /\ \A t \in now..(now + r.ret - 1) :
                       ~ record_message(r.limiter, u, t).ret
                /\ r.ret > 0 => record_message(r.limiter, u, now + r.ret).ret

\* time_until_next_allowed has returned 1: the window of 2 holds a message
\* recorded at 0, the time is 1, and a message is accepted at 2, not before
C20_MustWait ==
    /\ limiter.window_size = 2
    /\ limiter.max_requests = 1
    /\ lcall.op = "time_until"
    /\ lcall.at = 1
    /\ lcall.wait = 1
    /\ now = 1
    /\ limiter.history[lcall.user] = Present(<<0>>)
    /\ ~ record_message(limiter, lcall.user, 1).ret
    /\ record_message(limiter, lcall.user, 2).ret

====
